---- MODULE Spec2Model ----
(***************************************************************************)
(* Model of the land-sale application: the amortization engine of          *)
(* src/lib/calculations.ts, the sale-creation and sale-detail handlers of  *)
(* the admin pages, the storage helpers, the late-promotion SQL function   *)
(* and the Stripe webhook.                                                  *)
(*                                                                         *)
(* Numbers.  The program computes in IEEE-754 doubles.  The model computes *)
(* the same expressions, in the same order, over exact rationals <<n, d>>  *)
(* (d > 0, lowest terms).  The two agree on every stored (cent-rounded)    *)
(* field unless an unrounded value lies within double rounding error of an *)
(* exact half cent; every refutation below is by a whole cent.             *)
(***************************************************************************)
EXTENDS Integers, Sequences, FiniteSets, TLC

\* ------------------------------------------------------------------ bounds
\* Largest finance amount tried, in cents.
MaxCents == 400
\* Amounts down to -NegCents cents are tried as well (the function takes any number).
NegCents == 2
\* Largest term tried, in months.
MaxMonths == 3
\* Most records handed to calculatePayoffAmount.
MaxRecords == 3
\* Amounts handed to the cent rounding run from -MaxMills to MaxMills thousandths.
MaxMills == 130
\* Most calls of generateAmortizationSchedule with the same arguments.
MaxCalls == 2
\* Most sales created.
MaxSales == 1
\* Most rows of table payments.
MaxPayments == 2
\* Most checkout sessions completed.
MaxSessions == 1

\* ------------------------------------------------------- rational numbers
\* null, for a field that holds an amount or a date
NULL == <<>>

Abs(a) == IF a < 0 THEN 0 - a ELSE a

RECURSIVE GCD(_, _)
GCD(a, b) == IF b = 0 THEN a ELSE GCD(b, a % b)

\* The rational n/d in lowest terms with a positive denominator.
Rat(n, d) ==
    LET s == IF d < 0 THEN 0 - 1 ELSE 1
        g == GCD(Abs(n), Abs(d))
    IN  <<(s * n) \div g, (s * d) \div g>>

Zero == <<0, 1>>
Cents(c) == Rat(c, 100)
\* A stored 2-decimal amount, back in whole cents.
ToCents(x) == (x[1] * 100) \div x[2]

\* x + y
RAdd(x, y) ==
    LET g == GCD(x[2], y[2])
    IN  Rat(x[1] * (y[2] \div g) + y[1] * (x[2] \div g), (x[2] \div g) * y[2])

RNeg(x) == <<0 - x[1], x[2]>>

\* x - y
RSub(x, y) == RAdd(x, RNeg(y))

\* x * y, cross-reduced before multiplying
RMul(x, y) ==
    LET g1 == GCD(Abs(x[1]), y[2])
        g2 == GCD(Abs(y[1]), x[2])
    IN  Rat((x[1] \div g1) * (y[1] \div g2), (x[2] \div g2) * (y[2] \div g1))

\* x / y for y # 0
RDiv(x, y) == RMul(x, Rat(y[2], y[1]))

\* x <= y
RLe(x, y) ==
    LET g == GCD(x[2], y[2])
    IN  x[1] * (y[2] \div g) <= y[1] * (x[2] \div g)

RLt(x, y) == RLe(x, y) /\ x # y

\* Math.max(x, y)
MathMax(x, y) == IF RLe(x, y) THEN y ELSE x

\* Math.pow(x, k) for an integer k >= 0
RECURSIVE MathPow(_, _)
MathPow(x, k) == IF k = 0 THEN <<1, 1>> ELSE RMul(x, MathPow(x, k - 1))

\* Math.round(x): the nearest integer, a half rounding up (towards +infinity)
MathRound(x) == (2 * x[1] + x[2]) \div (2 * x[2])

\* Math.round(x * 100) / 100
Round2(x) == Rat(MathRound(RMul(x, <<100, 1>>)), 100)

\* ------------------------------------------------------------------ dates
\* A calendar date is <<year, month, day>>.
IsLeap(y) == (y % 4 = 0 /\ y % 100 # 0) \/ y % 400 = 0

DaysInMonth(y, m) ==
    IF m = 2 THEN (IF IsLeap(y) THEN 29 ELSE 28)
    ELSE IF m \in {4, 6, 9, 11} THEN 30 ELSE 31

\* A plausible slip: the day of the month is kept as it is (no clamping).
AddMonthsUnclamped(date, k) ==
    LET t == date[1] * 12 + (date[2] - 1) + k
    IN  <<t \div 12, (t % 12) + 1, date[3]>>

\* date-fns addMonths: the same day of the month k months on, clamped to the
\* last day of a shorter month.
AddMonths(date, k) ==
    LET t  == date[1] * 12 + (date[2] - 1) + k
        y  == t \div 12
        m  == (t % 12) + 1
        dm == DaysInMonth(y, m)
    IN  <<y, m, IF date[3] > dm THEN dm ELSE date[3]>>

\* date1 < date2
DateLt(a, b) ==
    \/ a[1] < b[1]
    \/ a[1] = b[1] /\ a[2] < b[2]
    \/ a[1] = b[1] /\ a[2] = b[2] /\ a[3] < b[3]

\* ------------------------------------------------- src/lib/calculations.ts
\* A plausible slip: only the term is guarded.
calculateMonthlyPaymentAnyPrincipal(principal, annualRate, months) ==
    IF months <= 0 THEN Zero
    ELSE IF annualRate = Zero THEN RDiv(principal, <<months, 1>>)
    ELSE LET monthlyRate == RDiv(RDiv(annualRate, <<100, 1>>), <<12, 1>>)
             pw          == MathPow(RAdd(<<1, 1>>, monthlyRate), months)
         IN  RMul(principal, RDiv(RMul(monthlyRate, pw), RSub(pw, <<1, 1>>)))

calculateMonthlyPayment(principal, annualRate, months) ==
    IF RLe(principal, Zero) \/ months <= 0 THEN Zero
    ELSE IF annualRate = Zero THEN RDiv(principal, <<months, 1>>)
    ELSE LET monthlyRate == RDiv(RDiv(annualRate, <<100, 1>>), <<12, 1>>)
             pw          == MathPow(RAdd(<<1, 1>>, monthlyRate), months)
             numerator   == RMul(monthlyRate, pw)
             denominator == RSub(pw, <<1, 1>>)
         IN  RMul(principal, RDiv(numerator, denominator))

\* A plausible slip: the down payment is left out of the total.
calculateTotalPaymentFinanced(monthlyPayment, months, downPayment) ==
    RMul(monthlyPayment, <<months, 1>>)

calculateTotalPayment(monthlyPayment, months, downPayment) ==
    RAdd(RMul(monthlyPayment, <<months, 1>>), downPayment)

\* A plausible slip: the difference is returned as it is.
calculateFinanceAmountSigned(salePrice, downPayment) == RSub(salePrice, downPayment)

calculateFinanceAmount(salePrice, downPayment) ==
    MathMax(Zero, RSub(salePrice, downPayment))

\* The interest accrued on the running balance in one month.
MonthInterest(balance, annualRate, monthlyRate) ==
    IF annualRate = Zero THEN Zero ELSE RMul(balance, monthlyRate)

\* The principal stored for payment i: the last payment takes the balance left.
AdjustedPrincipal(i, months, balance, principal) ==
    IF i = months THEN RAdd(balance, principal) ELSE principal

\* The amount due stored for payment i.
AdjustedPayment(i, months, adjustedPrincipal, interest, monthlyPayment) ==
    IF i = months THEN RAdd(adjustedPrincipal, interest) ELSE monthlyPayment

\* A plausible slip: the principal is cut to whole cents instead of rounded.
StoredPrincipalTruncated(adjustedPrincipal) ==
    Rat((adjustedPrincipal[1] * 100) \div adjustedPrincipal[2], 100)

\* The principal as stored in the entry.
StoredPrincipal(adjustedPrincipal) == Round2(adjustedPrincipal)

\* The entry pushed by one turn of the loop; balance is the balance after it.
ScheduleEntry(i, months, startDate, balance, principal, interest, monthlyPayment) ==
    LET adjustedPrincipal == AdjustedPrincipal(i, months, balance, principal)
        adjustedPayment   ==
            AdjustedPayment(i, months, adjustedPrincipal, interest, monthlyPayment)
    IN  [payment_number |-> i,
         due_date       |-> AddMonths(startDate, i),
         amount_due     |-> Round2(adjustedPayment),
         principal      |-> StoredPrincipal(adjustedPrincipal),
         interest       |-> Round2(interest),
         balance        |-> IF i = months THEN Zero ELSE Round2(balance)]

\* A plausible slip: the principal portion is added to the balance.
NewBalanceAdded(balance, principal) == MathMax(Zero, RAdd(balance, principal))

\* The running balance after a payment's principal portion.
NewBalance(balance, principal) == MathMax(Zero, RSub(balance, principal))

\* The for loop of generateAmortizationSchedule, from payment i on.
RECURSIVE ScheduleLoop(_, _, _, _)
ScheduleLoop(i, balance, schedule, c) ==
    IF i > c.months THEN schedule
    ELSE LET interest   == MonthInterest(balance, c.annualRate, c.monthlyRate)
             principal  == RSub(c.monthlyPayment, interest)
             newBalance == NewBalance(balance, principal)
         IN  ScheduleLoop(i + 1, newBalance,
                 Append(schedule,
                     ScheduleEntry(i, c.months, c.startDate, newBalance, principal,
                                   interest, c.monthlyPayment)),
                 c)

generateAmortizationSchedule(financeAmount, annualRate, months, startDate) ==
    ScheduleLoop(1, financeAmount, <<>>,
        [monthlyPayment |-> calculateMonthlyPayment(financeAmount, annualRate, months),
         monthlyRate    |-> RDiv(RDiv(annualRate, <<100, 1>>), <<12, 1>>),
         annualRate     |-> annualRate,
         months         |-> months,
         startDate      |-> startDate])

calculateSaleDetails(form) ==
    LET fin     == calculateFinanceAmount(form.sale_price, form.down_payment)
        monthly == calculateMonthlyPayment(fin, form.interest_rate, form.term_months)
        total   == calculateTotalPayment(monthly, form.term_months, form.down_payment)
    IN  [finance_amount  |-> Round2(fin),
         monthly_payment |-> Round2(monthly),
         total_payment   |-> Round2(total)]

\* A plausible slip: a record counts as paid once an amount is recorded on it.
IsPaidByAmount(p) == p.paid_amount # NULL

\* The filter of calculatePayoffAmount.
IsPaid(p) == p.status = "paid"

\* payments.filter(p => IsPaid(p)).reduce((sum, p) => sum + p.principal, 0)
RECURSIVE PaidPrincipal(_)
PaidPrincipal(ps) ==
    IF ps = <<>> THEN Zero
    ELSE LET rest == PaidPrincipal(SubSeq(ps, 1, Len(ps) - 1))
             p    == ps[Len(ps)]
         IN  IF IsPaid(p) THEN RAdd(rest, p.principal) ELSE rest

\* payments.reduce((sum, p) => sum + p.principal, 0)
RECURSIVE TotalPrincipal(_)
TotalPrincipal(ps) ==
    IF ps = <<>> THEN Zero
    ELSE RAdd(TotalPrincipal(SubSeq(ps, 1, Len(ps) - 1)), ps[Len(ps)].principal)

calculatePayoffAmount(ps) == Round2(RSub(TotalPrincipal(ps), PaidPrincipal(ps)))

\* ----------------------------------------------------------------- state
VARIABLES
    \* one call of generateAmortizationSchedule
    financeAmount,   \* argument
    annualRate,      \* argument: percent per year
    months,          \* argument: the term
    startDate,       \* argument
    schedule,        \* the value returned, empty before the call returns
    \* one call of calculatePayoffAmount
    records,         \* argument: the payment records
    payoffAmount,    \* the value returned, NULL before the call returns
    pc,              \* "call" before a call, "done" after it, "none" outside one
    \* one call of another function of calculations.ts
    call,            \* the function called and its arguments
    result,          \* the value returned, NULL before the call returns
    \* generateAmortizationSchedule called again and again
    returned,        \* the values returned so far for the arguments above, each
                     \* with the date of its call
    \* the application
    formData,        \* Sales page: the sale form
    submit,          \* Sales page: handleSubmit in flight
    sales,           \* table sales; a sale's id is its index
    payments,        \* table payments; a payment's id is its index
    view,            \* SaleDetail page: the sale last loaded, with its payments
    markPaidOff,     \* SaleDetail page: handleMarkPaidOff in flight
    today,           \* the current date
    sessions,        \* Stripe: the checkout sessions completed; a session's id is its index
    webhook,         \* stripe-webhook: the requests in flight, by handler
    \* the buyer's side
    dashboard        \* AuthProvider and the BuyerDashboard page of one signed-in user

callVars ==
    <<financeAmount, annualRate, months, startDate, schedule, records, payoffAmount, pc,
      call, result, returned>>
sysVars == <<formData, submit, sales, payments, view, markPaidOff, today, sessions, webhook>>
pageVars == <<dashboard>>
vars == <<callVars, sysVars, pageVars>>

\* Annual rates tried, in percent: none, and 120% (10% a month).
Rates == {0, 120}
StartDates == {<<2024, 1, 15>>, <<2024, 1, 31>>, <<2023, 11, 30>>}
\* Finance amounts tried, in cents: a dense range and the round figure 100.00.
Amounts == ((0 - NegCents)..MaxCents) \cup {10000}

\* The current date: the application is followed through one day.
Today == <<2024, 2, 15>>
Handlers == {"w1"}
EventTypes ==
    {"checkout.session.completed", "checkout.session.expired",
     "payment_intent.payment_failed", "customer.created"}

\* The form as useState and handleCloseModal set it.
DefaultForm(date) ==
    [sale_date |-> date, sale_price |-> Zero, down_payment |-> Zero,
     interest_rate |-> <<99, 10>>, term_months |-> 60]

Form(date, price, down, rate, term) ==
    [sale_date |-> date, sale_price |-> Cents(price), down_payment |-> Cents(down),
     interest_rate |-> <<rate, 1>>, term_months |-> term]

\* The forms an administrator fills in: a back-dated sale of 1.00 at interest
\* over two months, a sale of 1.00 due in one payment, and a sale of a month
\* ago paid in full by its down payment (its one payment is due today).
Forms ==
    {Form(<<2023, 12, 31>>, 100, 0, 120, 2),
     Form(Today, 100, 0, 0, 1),
     Form(<<2024, 1, 15>>, 100, 100, 0, 1)}

\* Most auth state changes reported to AuthProvider.
MaxAuthEvents == 2

\* No buyer's page is open.
NoDashboard == [mounted |-> FALSE]

\* The SaleDetail page before a sale is loaded (sale is null).
NoView == [loaded |-> FALSE]
IdleSubmit == [pc |-> "idle"]
IdleMarkPaidOff == [pc |-> "idle"]
IdleHandler == [pc |-> "idle"]

\* The application at rest, for the specifications of single calls.
AppIdle ==
    /\ formData = DefaultForm(Today)
    /\ submit = IdleSubmit
    /\ sales = <<>>
    /\ payments = <<>>
    /\ view = NoView
    /\ markPaidOff = IdleMarkPaidOff
    /\ today = Today
    /\ sessions = <<>>
    /\ webhook = [h \in Handlers |-> IdleHandler]
    /\ dashboard = NoDashboard

\* The arguments of no call.
NoArguments == [fn |-> "none"]

\* No single call in progress, for the specification of the application.
NoCall ==
    /\ financeAmount = Zero
    /\ annualRate = Zero
    /\ months = 0
    /\ startDate = Today
    /\ schedule = <<>>
    /\ records = <<>>
    /\ payoffAmount = NULL
    /\ pc = "none"
    /\ call = NoArguments
    /\ result = NULL
    /\ returned = <<>>

\* ------------------------------ generateAmortizationSchedule as a machine
InitSchedule ==
    /\ financeAmount \in {Cents(c) : c \in Amounts}
    /\ annualRate \in {<<r, 1>> : r \in Rates}
    /\ months \in 0..MaxMonths
    /\ startDate \in StartDates
    /\ schedule = <<>>
    /\ records = <<>>
    /\ payoffAmount = NULL
    /\ pc = "call"
    /\ call = NoArguments
    /\ result = NULL
    /\ returned = <<>>
    /\ AppIdle

Generate ==
    /\ pc = "call"
    /\ schedule' = generateAmortizationSchedule(financeAmount, annualRate, months, startDate)
    /\ pc' = "done"
    /\ UNCHANGED <<financeAmount, annualRate, months, startDate, records, payoffAmount>>
    /\ UNCHANGED <<call, result, returned>>
    /\ UNCHANGED <<sysVars, pageVars>>

NextSchedule == Generate

SpecSchedule == InitSchedule /\ [][NextSchedule]_vars

\* ------------------------------------- calculatePayoffAmount as a machine
Statuses == {"pending", "paid", "late", "missed"}
\* The records tried: scheduled principal and amount paid, in cents.
PayoffRecords ==
    [status : Statuses, principal : {Cents(c) : c \in {10000, 20000, 15000}},
     paid_amount : {NULL, Cents(1)}]

RECURSIVE SeqsUpTo(_, _)
SeqsUpTo(S, n) ==
    IF n = 0 THEN {<<>>}
    ELSE LET shorter == SeqsUpTo(S, n - 1)
         IN  shorter \cup {Append(q, x) : q \in {r \in shorter : Len(r) = n - 1}, x \in S}

InitPayoff ==
    /\ records \in SeqsUpTo(PayoffRecords, MaxRecords)
    /\ payoffAmount = NULL
    /\ financeAmount = Zero
    /\ annualRate = Zero
    /\ months = 0
    /\ startDate = Today
    /\ schedule = <<>>
    /\ pc = "call"
    /\ call = NoArguments
    /\ result = NULL
    /\ returned = <<>>
    /\ AppIdle

Payoff ==
    /\ pc = "call"
    /\ payoffAmount' = calculatePayoffAmount(records)
    /\ pc' = "done"
    /\ UNCHANGED <<financeAmount, annualRate, months, startDate, schedule, records>>
    /\ UNCHANGED <<call, result, returned>>
    /\ UNCHANGED <<sysVars, pageVars>>

NextPayoff == Payoff

SpecPayoff == InitPayoff /\ [][NextPayoff]_vars

\* ------------------------- the other functions of calculations.ts, called
\* Sale prices and down payments tried, in cents.
Prices == {0, 100, 250, MaxCents}
Downs == {0, 100, 300}

MonthlyPaymentCalls ==
    [fn : {"calculateMonthlyPayment"}, principal : {Cents(c) : c \in Amounts},
     annualRate : {<<r, 1>> : r \in Rates}, months : (0 - 1)..MaxMonths]

FinanceAmountCalls ==
    [fn : {"calculateFinanceAmount"}, salePrice : {Cents(c) : c \in Amounts},
     downPayment : {Cents(c) : c \in Downs}]

\* The forms tried, and a sale of 10000.00 with 2000.00 down.
SaleDetailsCalls ==
    [fn : {"calculateSaleDetails"},
     formData : {Form(Today, p, d, r, t) :
                    p \in Prices, d \in Downs, r \in Rates, t \in 0..MaxMonths}
                \cup {Form(Today, 1000000, 200000, 0, 3)}]

\* The amounts handed to Math.round(x * 100) / 100, in thousandths.
Round2Calls == [fn : {"round2"}, x : {Rat(n, 1000) : n \in (0 - MaxMills)..MaxMills}]

InitCalc ==
    /\ call \in MonthlyPaymentCalls \cup FinanceAmountCalls \cup SaleDetailsCalls
                \cup Round2Calls
    /\ result = NULL
    /\ pc = "call"
    /\ financeAmount = Zero
    /\ annualRate = Zero
    /\ months = 0
    /\ startDate = Today
    /\ schedule = <<>>
    /\ records = <<>>
    /\ payoffAmount = NULL
    /\ returned = <<>>
    /\ AppIdle

\* The call returns.
Return(value) ==
    /\ pc = "call"
    /\ result' = value
    /\ pc' = "done"
    /\ UNCHANGED <<financeAmount, annualRate, months, startDate, schedule, records,
                   payoffAmount, call, returned>>
    /\ UNCHANGED <<sysVars, pageVars>>

CallMonthlyPayment ==
    /\ call.fn = "calculateMonthlyPayment"
    /\ Return(calculateMonthlyPayment(call.principal, call.annualRate, call.months))

CallFinanceAmount ==
    /\ call.fn = "calculateFinanceAmount"
    /\ Return(calculateFinanceAmount(call.salePrice, call.downPayment))

CallSaleDetails ==
    /\ call.fn = "calculateSaleDetails"
    /\ Return(calculateSaleDetails(call.formData))

CallRound2 ==
    /\ call.fn = "round2"
    /\ Return(Round2(call.x))

NextCalc ==
    \/ CallMonthlyPayment
    \/ CallFinanceAmount
    \/ CallSaleDetails
    \/ CallRound2

SpecCalc == InitCalc /\ [][NextCalc]_vars

\* ------------------- generateAmortizationSchedule called again and again
\* The day after Today.
Tomorrow == <<2024, 2, 16>>

\* The arguments tried.
RepeatArguments ==
    [financeAmount : {Cents(100), Cents(MaxCents)}, annualRate : {<<r, 1>> : r \in Rates},
     months : {2, MaxMonths}, startDate : {<<2024, 1, 31>>}]

\* The arguments of the call that is repeated.
Arguments ==
    [financeAmount |-> financeAmount, annualRate |-> annualRate, months |-> months,
     startDate |-> startDate]

InitRepeat ==
    /\ \E a \in RepeatArguments :
        /\ financeAmount = a.financeAmount
        /\ annualRate = a.annualRate
        /\ months = a.months
        /\ startDate = a.startDate
    /\ schedule = <<>>
    /\ returned = <<>>
    /\ pc = "call"
    /\ records = <<>>
    /\ payoffAmount = NULL
    /\ call = NoArguments
    /\ result = NULL
    /\ AppIdle

\* A plausible slip: the array is kept between calls (declared outside the function).
ReturnedShared(a) ==
    schedule \o generateAmortizationSchedule(a.financeAmount, a.annualRate, a.months,
                                              a.startDate)

\* The array a call builds and returns.
Returned(a) ==
    generateAmortizationSchedule(a.financeAmount, a.annualRate, a.months, a.startDate)

\* The call is made once more; schedule is the value last returned by any call.
CallAgain ==
    /\ Len(returned) < MaxCalls
    /\ schedule' = Returned(Arguments)
    /\ returned' = Append(returned, [schedule |-> schedule', today |-> today])
    /\ pc' = "done"
    /\ UNCHANGED <<financeAmount, annualRate, months, startDate, records, payoffAmount,
                   call, result>>
    /\ UNCHANGED <<sysVars, pageVars>>

\* A call with other arguments is made in between.
CallOther ==
    /\ \E a \in RepeatArguments \ {Arguments} : schedule' = Returned(a)
    /\ UNCHANGED <<financeAmount, annualRate, months, startDate, records, payoffAmount,
                   pc, call, result, returned>>
    /\ UNCHANGED <<sysVars, pageVars>>

\* A day passes.
Tick ==
    /\ today = Today
    /\ today' = Tomorrow
    /\ UNCHANGED <<formData, submit, sales, payments, view, markPaidOff, sessions, webhook>>
    /\ UNCHANGED <<callVars, pageVars>>

NextRepeat == CallAgain \/ CallOther \/ Tick

SpecRepeat == InitRepeat /\ [][NextRepeat]_vars

\* ----------------------------------- AuthProvider and the BuyerDashboard
\* A user with a session opens the application: AuthProvider is mounted with
\* user and buyer null and isLoading true; the user has a buyer profile or none.
\* buyer is 0 for null, or the number of the object setBuyer was last given.
InitDashboard ==
    /\ \E profile \in BOOLEAN :
        dashboard = [profile   |-> profile,
                     isLoading |-> TRUE,
                     user      |-> FALSE,
                     buyer     |-> 0,
                     set       |-> 0,
                     loadBuyer |-> 0,
                     events    |-> 0,
                     mounted   |-> FALSE,
                     loading   |-> FALSE,
                     loadData  |-> 0,
                     sales     |-> "none"]
    /\ formData = DefaultForm(Today)
    /\ submit = IdleSubmit
    /\ sales = <<>>
    /\ payments = <<>>
    /\ view = NoView
    /\ markPaidOff = IdleMarkPaidOff
    /\ today = Today
    /\ sessions = <<>>
    /\ webhook = [h \in Handlers |-> IdleHandler]
    /\ NoCall

\* What the BuyerDashboard route shows.
DashboardView ==
    IF dashboard.isLoading \/ ~dashboard.mounted THEN "route spinner"
    ELSE IF dashboard.loading THEN "spinner"
    ELSE IF dashboard.buyer = 0 THEN "No buyer profile found"
    ELSE "dashboard"

\* getSession resolves: the user is set, loadBuyer is started and not awaited,
\* isLoading ends.
SessionRead ==
    /\ dashboard.isLoading
    /\ dashboard' = [dashboard EXCEPT !.user = TRUE, !.loadBuyer = @ + 1,
                                       !.isLoading = FALSE]
    /\ UNCHANGED <<callVars, sysVars>>

\* onAuthStateChange reports the session: the user is set and loadBuyer started.
AuthEvent ==
    /\ dashboard.events < MaxAuthEvents
    /\ dashboard' = [dashboard EXCEPT !.user = TRUE, !.loadBuyer = @ + 1,
                                       !.events = @ + 1]
    /\ UNCHANGED <<callVars, sysVars>>

\* The buyer after a loadBuyer ends: a new object when a row was returned, null
\* when none was, unchanged when the call failed.
BuyerAfter(d, outcome) ==
    IF outcome = "error" THEN d.buyer
    ELSE IF d.profile THEN d.set + 1 ELSE 0

\* A call of loadData is started by the effect on [buyer] when buyer is set.
EffectStarts(oldBuyer, newBuyer) == IF newBuyer # oldBuyer /\ newBuyer # 0 THEN 1 ELSE 0

\* A loadBuyer ends, and with the page mounted its effect on [buyer] runs.
BuyerLoaded ==
    /\ dashboard.loadBuyer > 0
    /\ \E outcome \in {"data", "error"} :
        LET buyer == BuyerAfter(dashboard, outcome)
        IN  dashboard' = [dashboard EXCEPT
                !.loadBuyer = @ - 1,
                !.buyer = buyer,
                !.set = IF outcome = "data" /\ dashboard.profile THEN @ + 1 ELSE @,
                !.loadData = IF dashboard.mounted
                             THEN @ + EffectStarts(dashboard.buyer, buyer) ELSE @]
    /\ UNCHANGED <<callVars, sysVars>>

\* The route renders BuyerDashboard: loading starts true and the effect runs.
Mount ==
    /\ ~dashboard.isLoading
    /\ dashboard.user
    /\ ~dashboard.mounted
    /\ dashboard' = [dashboard EXCEPT !.mounted = TRUE, !.loading = TRUE,
                                       !.loadData = @ + EffectStarts(0, dashboard.buyer)]
    /\ UNCHANGED <<callVars, sysVars>>

\* A loadData ends: the sales are set, or the load failed; loading ends.
DataLoaded ==
    /\ dashboard.loadData > 0
    /\ \E ok \in BOOLEAN :
        dashboard' = [dashboard EXCEPT !.loadData = @ - 1, !.loading = FALSE,
                                       !.sales = IF ok THEN "loaded" ELSE @]
    /\ UNCHANGED <<callVars, sysVars>>

NextDashboard == SessionRead \/ AuthEvent \/ BuyerLoaded \/ Mount \/ DataLoaded

\* Promises settle and the route renders; auth state changes come as they may.
SpecDashboard ==
    /\ InitDashboard
    /\ [][NextDashboard]_vars
    /\ WF_vars(SessionRead)
    /\ WF_vars(BuyerLoaded)
    /\ WF_vars(Mount)
    /\ WF_vars(DataLoaded)

\* --------------------------------------------------------- the application
\* A plausible slip: the amount financed is stored as the sale price.
NewSaleOfPrice(id, form, calculatedValues) ==
    [id              |-> id,
     sale_date       |-> form.sale_date,
     sale_price      |-> form.sale_price,
     down_payment    |-> form.down_payment,
     interest_rate   |-> form.interest_rate,
     term_months     |-> form.term_months,
     finance_amount  |-> form.sale_price,
     monthly_payment |-> calculatedValues.monthly_payment,
     total_payment   |-> calculatedValues.total_payment,
     status          |-> "active"]

\* The row createSale inserts: the form, the calculated values, status 'active'.
NewSale(id, form, calculatedValues) ==
    [id              |-> id,
     sale_date       |-> form.sale_date,
     sale_price      |-> form.sale_price,
     down_payment    |-> form.down_payment,
     interest_rate   |-> form.interest_rate,
     term_months     |-> form.term_months,
     finance_amount  |-> calculatedValues.finance_amount,
     monthly_payment |-> calculatedValues.monthly_payment,
     total_payment   |-> calculatedValues.total_payment,
     status          |-> "active"]

\* A plausible slip: the principal portion is stored as the amount due.
NewPaymentOfPrincipal(id, sale_id, entry) ==
    [id                         |-> id,
     sale_id                    |-> sale_id,
     payment_number             |-> entry.payment_number,
     due_date                   |-> entry.due_date,
     amount_due                 |-> entry.principal,
     principal                  |-> entry.principal,
     interest                   |-> entry.interest,
     paid_amount                |-> NULL,
     paid_date                  |-> NULL,
     stripe_payment_id          |-> 0,
     stripe_checkout_session_id |-> 0,
     status                     |-> "pending"]

\* The row handleSubmit builds from a schedule entry; 0 is a null Stripe id.
NewPayment(id, sale_id, entry) ==
    [id                         |-> id,
     sale_id                    |-> sale_id,
     payment_number             |-> entry.payment_number,
     due_date                   |-> entry.due_date,
     amount_due                 |-> entry.amount_due,
     principal                  |-> entry.principal,
     interest                   |-> entry.interest,
     paid_amount                |-> NULL,
     paid_date                  |-> NULL,
     stripe_payment_id          |-> 0,
     stripe_checkout_session_id |-> 0,
     status                     |-> "pending"]

\* The rows of table payments that belong to a sale, in payment order.
PaymentsOf(rows, sale_id) == SelectSeq(rows, LAMBDA p : p.sale_id = sale_id)

\* A payment as the SaleDetail page holds it: the fields its handlers and
\* totals read.
ViewPayment(p) ==
    [id |-> p.id, status |-> p.status, amount_due |-> p.amount_due,
     principal |-> p.principal, paid_amount |-> p.paid_amount]

\* getSale(id): the sale with its payments.
GetSale(saleRows, paymentRows, id) ==
    LET rows == PaymentsOf(paymentRows, id)
    IN  [loaded   |-> TRUE,
         sale     |-> saleRows[id],
         payments |-> [i \in 1..Len(rows) |-> ViewPayment(rows[i])]]

\* The administrator fills in the sale form (setFormData); the form is followed
\* while a sale can still be created.
EditForm ==
    /\ Len(sales) < MaxSales
    /\ \E f \in Forms : f # formData /\ formData' = f
    /\ UNCHANGED <<submit, sales, payments, view, markPaidOff, today, sessions, webhook>>
    /\ UNCHANGED <<callVars, pageVars>>

\* handleSubmit up to the return of createSale: the sale row is inserted, or the
\* insert fails and the handler ends in its catch.
CreateSale ==
    /\ submit.pc = "idle"
    /\ formData \in Forms
    /\ Len(sales) < MaxSales
    /\ Len(payments) + formData.term_months <= MaxPayments
    /\ \E ok \in BOOLEAN :
        IF ok
        THEN LET calculatedValues == calculateSaleDetails(formData)
                 id               == Len(sales) + 1
             IN  /\ sales' = Append(sales, NewSale(id, formData, calculatedValues))
                 /\ submit' = [pc |-> "createPayments", formData |-> formData,
                               calculatedValues |-> calculatedValues, sale_id |-> id]
        ELSE UNCHANGED <<sales, submit>>
    /\ UNCHANGED <<formData, payments, view, markPaidOff, today, sessions, webhook>>
    /\ UNCHANGED <<callVars, pageVars>>

\* The payment rows handleSubmit hands to createPayments.
SubmitPayments(firstId, sale_id, form, calculatedValues) ==
    LET entries == generateAmortizationSchedule(calculatedValues.finance_amount,
                       form.interest_rate, form.term_months, form.sale_date)
    IN  [i \in 1..Len(entries) |-> NewPayment(firstId + i - 1, sale_id, entries[i])]

\* handleSubmit from the schedule to its end: createPayments inserts every row
\* and the form is closed and reset, or the insert fails and the handler ends
\* in its catch.
CreatePayments ==
    /\ submit.pc = "createPayments"
    /\ \E ok \in BOOLEAN :
        IF ok
        THEN /\ payments' = payments \o SubmitPayments(Len(payments) + 1, submit.sale_id,
                                            submit.formData, submit.calculatedValues)
             /\ formData' = DefaultForm(today)
        ELSE UNCHANGED <<payments, formData>>
    /\ submit' = IdleSubmit
    /\ UNCHANGED <<sales, view, markPaidOff, today, sessions, webhook>>
    /\ UNCHANGED <<callVars, pageVars>>

\* SaleDetail totalPaid: the paid_amount of the payments shown as paid, added up.
RECURSIVE TotalPaid(_)
TotalPaid(ps) ==
    IF ps = <<>> THEN Zero
    ELSE LET rest == TotalPaid(SubSeq(ps, 1, Len(ps) - 1))
             p    == ps[Len(ps)]
         IN  IF p.status = "paid"
             THEN RAdd(rest, IF p.paid_amount = NULL THEN Zero ELSE p.paid_amount)
             ELSE rest

\* SaleDetail 'Total Paid': totalPaid + sale.down_payment.
DisplayedTotalPaid(v) == RAdd(TotalPaid(v.payments), v.sale.down_payment)

\* SaleDetail loadData: the page of a sale is opened or refreshed.
LoadData ==
    /\ \E id \in 1..Len(sales) : view' = GetSale(sales, payments, id)
    /\ UNCHANGED <<formData, submit, sales, payments, markPaidOff, today, sessions, webhook>>
    /\ UNCHANGED <<callVars, pageVars>>

\* A plausible slip: only the status is written.
MarkedPaidStatusOnly(row, payment, date) == [row EXCEPT !.status = "paid"]

\* The fields updatePayment writes when a payment is marked paid by hand.
MarkedPaid(row, payment, date) ==
    [row EXCEPT !.status = "paid", !.paid_amount = payment.amount_due, !.paid_date = date]

\* The loadData that ends a handler: the page shows the new rows, or the load fails.
Reloaded(id) == {GetSale(sales', payments', id), view}

\* handleMarkPaid on a payment the page shows as not paid.
MarkPaid ==
    /\ view.loaded
    /\ \E i \in 1..Len(view.payments) :
        LET payment == view.payments[i]
        IN  /\ payment.status # "paid"
            /\ \E ok \in BOOLEAN :
                IF ok
                THEN /\ payments' = [payments EXCEPT
                                        ![payment.id] = MarkedPaid(@, payment, today)]
                     /\ UNCHANGED sales
                     /\ view' \in Reloaded(view.sale.id)
                ELSE UNCHANGED <<payments, view>>
    /\ UNCHANGED <<formData, submit, sales, markPaidOff, today, sessions, webhook>>
    /\ UNCHANGED <<callVars, pageVars>>

\* handleMarkPaidOff starts on a sale the page shows as active: the payments the
\* page shows as not paid are queued.
MarkPaidOffStart ==
    /\ view.loaded
    /\ view.sale.status = "active"
    /\ markPaidOff.pc = "idle"
    /\ markPaidOff' = [pc |-> "payments", sale_id |-> view.sale.id,
                       pendingPayments |-> SelectSeq(view.payments,
                                                     LAMBDA p : p.status # "paid")]
    /\ UNCHANGED <<formData, submit, sales, payments, view, today, sessions, webhook>>
    /\ UNCHANGED <<callVars, pageVars>>

\* One turn of the loop of handleMarkPaidOff: the next queued payment is updated,
\* or the update fails and the handler ends in its catch.
MarkPaidOffPayment ==
    /\ markPaidOff.pc = "payments"
    /\ markPaidOff.pendingPayments # <<>>
    /\ LET payment == Head(markPaidOff.pendingPayments)
       IN  \E ok \in BOOLEAN :
            IF ok
            THEN /\ payments' = [payments EXCEPT
                                    ![payment.id] = MarkedPaid(@, payment, today)]
                 /\ markPaidOff' = [markPaidOff EXCEPT
                                       !.pendingPayments = Tail(@)]
            ELSE /\ UNCHANGED payments
                 /\ markPaidOff' = IdleMarkPaidOff
    /\ UNCHANGED <<formData, submit, sales, view, today, sessions, webhook>>
    /\ UNCHANGED <<callVars, pageVars>>

\* A plausible slip: marking a sale paid off also clears its monthly payment.
PaidOffCleared(row) == [row EXCEPT !.status = "paid_off", !.monthly_payment = Zero]

\* What updateSale(id, {status: 'paid_off'}) writes.
PaidOff(row) == [row EXCEPT !.status = "paid_off"]

\* The end of handleMarkPaidOff: the sale is updated and the page reloaded, or
\* the update fails and the handler ends in its catch.
MarkPaidOffSale ==
    /\ markPaidOff.pc = "payments"
    /\ markPaidOff.pendingPayments = <<>>
    /\ \E ok \in BOOLEAN :
        IF ok
        THEN /\ sales' = [sales EXCEPT ![markPaidOff.sale_id] = PaidOff(@)]
             /\ UNCHANGED payments
             /\ view' \in Reloaded(markPaidOff.sale_id)
        ELSE UNCHANGED <<sales, view>>
    /\ markPaidOff' = IdleMarkPaidOff
    /\ UNCHANGED <<formData, submit, payments, today, sessions, webhook>>
    /\ UNCHANGED <<callVars, pageVars>>

\* A plausible slip: a payment is promoted on its due date already.
PromotedOnDueDate(row, date) ==
    IF row.status = "pending" /\ ~DateLt(date, row.due_date)
    THEN [row EXCEPT !.status = "late"] ELSE row

\* A plausible slip: every payment past due is promoted, whatever its status.
PromotedWhateverStatus(row, date) ==
    IF DateLt(row.due_date, date) THEN [row EXCEPT !.status = "late"] ELSE row

\* What update_payment_statuses does to one row.
Promoted(row, date) ==
    IF row.status = "pending" /\ DateLt(row.due_date, date)
    THEN [row EXCEPT !.status = "late"] ELSE row

\* The SQL function update_payment_statuses runs.
UpdatePaymentStatuses ==
    /\ payments' = [i \in 1..Len(payments) |-> Promoted(payments[i], today)]
    /\ UNCHANGED <<formData, submit, sales, view, markPaidOff, today, sessions, webhook>>
    /\ UNCHANGED <<callVars, pageVars>>

\* A plausible slip: the amount is handed to Stripe without its conversion to cents.
SessionForUnits(payment) ==
    [payment_id |-> payment.id, amount_total |-> MathRound(payment.amount_due)]

\* The checkout session create-checkout opens for a payment: its amount_due in
\* cents, and the payment's id as metadata.
SessionFor(payment) ==
    [payment_id   |-> payment.id,
     amount_total |-> MathRound(RMul(payment.amount_due, <<100, 1>>))]

\* MakePayment.handlePayment and create-checkout, and the buyer paying at
\* Stripe: a checkout session for a payment's amount_due, in cents, is completed.
\* create-checkout refuses an amount of 0.
Checkout ==
    /\ Len(sessions) < MaxSessions
    /\ \E id \in 1..Len(payments) :
        /\ payments[id].amount_due # Zero
        /\ sessions' = Append(sessions, SessionFor(payments[id]))
    /\ UNCHANGED <<formData, submit, sales, payments, view, markPaidOff, today, webhook>>
    /\ UNCHANGED <<callVars, pageVars>>

\* The end of a request: the response is on its way.
Responded(status) == [pc |-> "done", status |-> status]

\* A plausible slip: a request without a signature is handled as a verified one.
ReceivedUnsigned(signature, type, s) ==
    IF signature = "invalid" THEN Responded(400)
    ELSE IF type = "checkout.session.completed" /\ s # 0
         THEN [pc |-> "updatePayment", session |-> s]
         ELSE Responded(200)

\* Where the handler stands once the request is read: answered 400 without a
\* valid signature, about to update the payment of a completed session, or
\* answered 200.
Received(signature, type, s) ==
    IF signature # "valid" THEN Responded(400)
    ELSE IF type = "checkout.session.completed" /\ s # 0
         THEN [pc |-> "updatePayment", session |-> s]
         ELSE Responded(200)

\* A request reaches stripe-webhook: without a signature, or with one that fails
\* verification, it is answered 400.  A verified event is one Stripe sent: of
\* any type, about a session of this application (s > 0) or about an object
\* without payment_id metadata (s = 0).
WebhookReceive(h) ==
    /\ webhook[h].pc = "idle"
    /\ \E signature \in {"none", "invalid", "valid"}, type \in EventTypes,
          s \in 0..Len(sessions) :
        webhook' = [webhook EXCEPT ![h] = Received(signature, type, s)]
    /\ UNCHANGED <<formData, submit, sales, payments, view, markPaidOff, today, sessions>>
    /\ UNCHANGED <<callVars, pageVars>>

\* A plausible slip: the amount charged is written over the amount due.
SessionPaidOverDue(row, s, date) ==
    [row EXCEPT !.status = "paid",
                !.amount_due = Cents(sessions[s].amount_total + 1),
                !.paid_date = date,
                !.stripe_payment_id = s,
                !.stripe_checkout_session_id = s]

\* A plausible slip: the amount charged is added to the amount paid so far.
SessionPaidAdded(row, s, date) ==
    LET charged == RDiv(<<sessions[s].amount_total, 1>>, <<100, 1>>)
    IN  [row EXCEPT !.status = "paid",
                    !.paid_amount = IF @ = NULL THEN charged ELSE RAdd(@, charged),
                    !.paid_date = date,
                    !.stripe_payment_id = s,
                    !.stripe_checkout_session_id = s]

\* The fields the webhook writes on the payment of a completed session.
SessionPaid(row, s, date) ==
    [row EXCEPT !.status = "paid",
                !.paid_amount = RDiv(<<sessions[s].amount_total, 1>>, <<100, 1>>),
                !.paid_date = date,
                !.stripe_payment_id = s,
                !.stripe_checkout_session_id = s]

\* The webhook updates the payment, or the update fails and the request is answered 400.
WebhookUpdatePayment(h) ==
    /\ webhook[h].pc = "updatePayment"
    /\ LET s  == webhook[h].session
           id == sessions[s].payment_id
       IN  \E ok \in BOOLEAN :
            IF ok
            THEN /\ payments' = [payments EXCEPT ![id] = SessionPaid(@, s, today)]
                 /\ webhook' = [webhook EXCEPT ![h] = [pc |-> "readSale", session |-> s]]
            ELSE /\ UNCHANGED payments
                 /\ webhook' = [webhook EXCEPT ![h] = Responded(400)]
    /\ UNCHANGED <<formData, submit, sales, view, markPaidOff, today, sessions>>
    /\ UNCHANGED <<callVars, pageVars>>

\* The webhook reads the payment's sale_id; without data it answers 200.
WebhookReadSale(h) ==
    /\ webhook[h].pc = "readSale"
    /\ LET s == webhook[h].session
       IN  \E ok \in BOOLEAN :
            webhook' = [webhook EXCEPT ![h] =
                IF ok THEN [pc |-> "queryUnpaid", session |-> s,
                            sale_id |-> payments[sessions[s].payment_id].sale_id]
                      ELSE Responded(200)]
    /\ UNCHANGED <<formData, submit, sales, payments, view, markPaidOff, today, sessions>>
    /\ UNCHANGED <<callVars, pageVars>>

\* A plausible slip: the query leaves out its filter on the status.
NonePendingOfAll(ok, rows, sale_id) ==
    \/ ~ok
    \/ \A i \in 1..Len(rows) : rows[i].sale_id # sale_id

\* Whether the webhook goes on to mark the sale paid off: the query of the
\* sale's payments that are not paid returned no row, or returned no data.
NonePending(ok, rows, sale_id) ==
    \/ ~ok
    \/ \A i \in 1..Len(rows) : rows[i].sale_id = sale_id => rows[i].status = "paid"

\* The webhook queries the sale's payments that are not paid.
WebhookQueryUnpaid(h) ==
    /\ webhook[h].pc = "queryUnpaid"
    /\ \E ok \in BOOLEAN :
        webhook' = [webhook EXCEPT ![h] =
            IF NonePending(ok, payments, webhook[h].sale_id)
            THEN [pc |-> "updateSale", sale_id |-> webhook[h].sale_id]
            ELSE Responded(200)]
    /\ UNCHANGED <<formData, submit, sales, payments, view, markPaidOff, today, sessions>>
    /\ UNCHANGED <<callVars, pageVars>>

\* The webhook marks the sale paid off (an error of the update is not read) and answers 200.
WebhookUpdateSale(h) ==
    /\ webhook[h].pc = "updateSale"
    /\ \E ok \in BOOLEAN :
        IF ok THEN sales' = [sales EXCEPT ![webhook[h].sale_id] = PaidOff(@)]
              ELSE UNCHANGED sales
    /\ webhook' = [webhook EXCEPT ![h] = Responded(200)]
    /\ UNCHANGED <<formData, submit, payments, view, markPaidOff, today, sessions>>
    /\ UNCHANGED <<callVars, pageVars>>

\* The response has been sent; the handler is free for the next request.
WebhookDone(h) ==
    /\ webhook[h].pc = "done"
    /\ webhook' = [webhook EXCEPT ![h] = IdleHandler]
    /\ UNCHANGED <<formData, submit, sales, payments, view, markPaidOff, today, sessions>>
    /\ UNCHANGED <<callVars, pageVars>>

\* One step of a stripe-webhook request.
Webhook ==
    \E h \in Handlers :
        \/ WebhookReceive(h)
        \/ WebhookUpdatePayment(h)
        \/ WebhookReadSale(h)
        \/ WebhookQueryUnpaid(h)
        \/ WebhookUpdateSale(h)
        \/ WebhookDone(h)

Init == AppIdle /\ NoCall

\* ------------------------------ checkout.session.completed, processed without
\* a failure: the steps of a handler whose storage calls all succeed.
Delivered(h, s) ==
    /\ WebhookReceive(h)
    /\ webhook'[h] = [pc |-> "updatePayment", session |-> s]

UpdatesPayment(h) ==
    /\ WebhookUpdatePayment(h)
    /\ webhook'[h].pc = "readSale"

ReadsSale(h) ==
    /\ WebhookReadSale(h)
    /\ webhook'[h].pc = "queryUnpaid"

QueriesUnpaid(h) ==
    /\ WebhookQueryUnpaid(h)
    /\ webhook'[h].pc = "updateSale" => NonePending(TRUE, payments, webhook[h].sale_id)

UpdatesSale(h) ==
    /\ WebhookUpdateSale(h)
    /\ sales'[webhook[h].sale_id].status = "paid_off"

PaymentUpdated == \E h \in DOMAIN webhook : UpdatesPayment(h)
SaleRead == \E h \in DOMAIN webhook : ReadsSale(h)
UnpaidQueried == \E h \in DOMAIN webhook : QueriesUnpaid(h)
SaleUpdated == \E h \in DOMAIN webhook : UpdatesSale(h)

\* A sale as handleSubmit stores it, with its payments, and the page not loaded.
Sold(form) ==
    /\ sales = <<NewSale(1, form, calculateSaleDetails(form))>>
    /\ payments = SubmitPayments(1, 1, form, calculateSaleDetails(form))
    /\ formData = DefaultForm(Today)
    /\ submit = IdleSubmit
    /\ view = NoView
    /\ markPaidOff = IdleMarkPaidOff
    /\ today = Today
    /\ dashboard = NoDashboard
    /\ NoCall

\* ---------------- every payment of a sale paid by card, one handler for each
\* A back-dated sale of 1.00 at interest over the longest term.
CardForm == Form(<<2023, 12, 31>>, 100, 0, 120, MaxMonths)

InitCards ==
    /\ Sold(CardForm)
    /\ sessions = [i \in 1..Len(payments) |-> SessionFor(payments[i])]
    /\ webhook = [i \in 1..Len(payments) |-> IdleHandler]

\* The event of session h reaches handler h.
CardDelivered == \E h \in DOMAIN webhook : Delivered(h, h)

NextCards ==
    \/ CardDelivered
    \/ PaymentUpdated
    \/ SaleRead
    \/ UnpaidQueried
    \/ SaleUpdated
    \/ UpdatePaymentStatuses

SpecCards == InitCards /\ [][NextCards]_vars

\* --------------------------- one checkout.session.completed delivered twice
\* The forms of the sale: two payments, or one.
RedeliveryForms == {Form(<<2023, 12, 31>>, 100, 0, 120, 2), Form(Today, 100, 0, 0, 1)}

InitRedelivery ==
    /\ \E form \in RedeliveryForms : Sold(form)
    /\ sessions = <<SessionFor(payments[1])>>
    /\ webhook = [i \in 1..2 |-> IdleHandler]

\* The event of session 1 reaches a handler.
Redelivered == \E h \in DOMAIN webhook : Delivered(h, 1)

\* handleMarkPaid on the payment of the session.
MarkPaidFirst ==
    /\ MarkPaid
    /\ \A j \in 2..Len(payments) : payments'[j] = payments[j]

NextRedelivery ==
    \/ Redelivered
    \/ PaymentUpdated
    \/ SaleRead
    \/ UnpaidQueried
    \/ SaleUpdated
    \/ LoadData
    \/ MarkPaidFirst

SpecRedelivery == InitRedelivery /\ [][NextRedelivery]_vars

Next ==
    \/ EditForm
    \/ CreateSale
    \/ CreatePayments
    \/ LoadData
    \/ MarkPaid
    \/ MarkPaidOffStart
    \/ MarkPaidOffPayment
    \/ MarkPaidOffSale
    \/ UpdatePaymentStatuses
    \/ Checkout
    \/ Webhook

Spec == Init /\ [][Next]_vars

\* ------------------------------------------------ claims on the schedule
RECURSIVE SumPrincipal(_)
SumPrincipal(s) == IF s = <<>> THEN Zero ELSE RAdd(Head(s).principal, SumPrincipal(Tail(s)))

\* financeAmount > 0 and months >= 1 (every rate tried is >= 0)
ValidInputs == RLt(Zero, financeAmount) /\ months >= 1

\* C1: for valid inputs the stored principal fields of the returned schedule
\* add up to round2(financeAmount) exactly.
C1_SumOfPrincipal ==
    (pc = "done" /\ ValidInputs) => SumPrincipal(schedule) = Round2(financeAmount)

\* C2: the schedule is empty whenever months = 0 or financeAmount <= 0.
C2_DegenerateEmpty ==
    (pc = "done" /\ (months = 0 \/ RLe(financeAmount, Zero))) => schedule = <<>>

\* C3: in every entry amount_due = round2(principal + interest), on the stored values.
C3_AmountDecomposition ==
    pc = "done" =>
        \A i \in 1..Len(schedule) :
            schedule[i].amount_due = Round2(RAdd(schedule[i].principal, schedule[i].interest))

\* C4: at a zero rate, for valid inputs, the stored principal fields add up to
\* financeAmount exactly.
C4_ZeroRateSum ==
    (pc = "done" /\ ValidInputs /\ annualRate = Zero) => SumPrincipal(schedule) = financeAmount

\* C5: at a zero rate every entry has interest 0 and principal equal to amount_due.
C5_ZeroRateEntries ==
    (pc = "done" /\ annualRate = Zero) =>
        \A i \in 1..Len(schedule) :
            /\ schedule[i].interest = Zero
            /\ schedule[i].principal = schedule[i].amount_due

\* A zero-rate schedule of three payments of a third of a cent-odd amount each.
C5_Witness ==
    /\ pc = "done"
    /\ annualRate = Zero
    /\ financeAmount = Cents(10000)
    /\ Len(schedule) = 3
    /\ schedule[3].principal = Cents(3333)

\* C6: for valid inputs the balance never increases from one entry to the next,
\* is never negative, and is 0 on the last entry.
C6_BalanceMonotone ==
    (pc = "done" /\ ValidInputs) =>
        /\ \A i \in 2..Len(schedule) : RLe(schedule[i].balance, schedule[i - 1].balance)
        /\ \A i \in 1..Len(schedule) : RLe(Zero, schedule[i].balance)
        /\ schedule[Len(schedule)].balance = Zero

\* A three-payment schedule at interest whose balance falls at every payment.
C6_Witness ==
    /\ pc = "done"
    /\ ValidInputs
    /\ annualRate # Zero
    /\ Len(schedule) = 3
    /\ RLt(schedule[2].balance, schedule[1].balance)
    /\ RLt(schedule[3].balance, schedule[2].balance)

\* --------------------------------------------------- claims on the payoff
RECURSIVE UnpaidPrincipal(_)
UnpaidPrincipal(ps) ==
    IF ps = <<>> THEN Zero
    ELSE RAdd(IF Head(ps).status # "paid" THEN Head(ps).principal ELSE Zero,
              UnpaidPrincipal(Tail(ps)))

\* C9: calculatePayoffAmount is round2 of the scheduled principal of the records
\* whose status is not 'paid', whatever their paid_amount; the records
\* (100, paid), (200, pending), (150, late) give 350.
C9_PayoffAmount ==
    pc = "done" =>
        /\ payoffAmount = Round2(UnpaidPrincipal(records))
        /\ (/\ Len(records) = 3
            /\ <<records[1].status, records[2].status, records[3].status>>
                 = <<"paid", "pending", "late">>
            /\ <<records[1].principal, records[2].principal, records[3].principal>>
                 = <<Cents(10000), Cents(20000), Cents(15000)>>)
           => payoffAmount = Cents(35000)

\* The example's records, the pending one with an amount recorded on it.
C9_Witness ==
    /\ pc = "done"
    /\ Len(records) = 3
    /\ <<records[1].status, records[2].status, records[3].status>> = <<"paid", "pending", "late">>
    /\ <<records[1].principal, records[2].principal, records[3].principal>>
         = <<Cents(10000), Cents(20000), Cents(15000)>>
    /\ records[2].paid_amount # NULL
    /\ payoffAmount = Cents(35000)

\* The last day of month m (1..12) of year y.
LastDay(y, m) ==
    CASE m = 2 -> IF (y % 4 = 0 /\ y % 100 # 0) \/ y % 400 = 0 THEN 29 ELSE 28
      [] m \in {4, 6, 9, 11} -> 30
      [] OTHER -> 31

\* C13: for months >= 1 the schedule has months entries; entry k has
\* payment_number k and is due k calendar months after startDate, on
\* startDate's day of the month or the month's last day if that is earlier;
\* due dates strictly increase, and a start of 2024-01-15 is first due 2024-02-15.
C13_EntriesAndDueDates ==
    (pc = "done" /\ months >= 1) =>
        /\ Len(schedule) = months
        /\ \A k \in 1..Len(schedule) :
            LET due   == schedule[k].due_date
                mm    == ((startDate[2] - 1 + k) % 12) + 1
                yy    == startDate[1] + ((startDate[2] - 1 + k) \div 12)
            IN  /\ schedule[k].payment_number = k
                /\ due[1] = yy
                /\ due[2] = mm
                /\ due[3] = IF startDate[3] < LastDay(yy, mm) THEN startDate[3]
                                                               ELSE LastDay(yy, mm)
        /\ \A k \in 1..(Len(schedule) - 1) :
            DateLt(schedule[k].due_date, schedule[k + 1].due_date)
        /\ startDate = <<2024, 1, 15>> => schedule[1].due_date = <<2024, 2, 15>>

\* A schedule from the last day of January: the due dates are clamped to the
\* ends of February and April, and not carried from one to the next.
C13_Witness ==
    /\ pc = "done"
    /\ startDate = <<2024, 1, 31>>
    /\ Len(schedule) = 3
    /\ schedule[1].due_date = <<2024, 2, 29>>
    /\ schedule[2].due_date = <<2024, 3, 31>>
    /\ schedule[3].due_date = <<2024, 4, 30>>

\* ------------------------------------- claims on the other calculations
\* C14: calculateSaleDetails returns finance_amount = round2(max(0, sale_price -
\* down_payment)) and total_payment = round2(monthly * term_months +
\* down_payment), monthly being the payment formula's value for the amount
\* financed; 10000 with 2000 down gives 8000.00.
C14_SaleDetails ==
    (pc = "done" /\ call.fn = "calculateSaleDetails") =>
        LET form     == call.formData
            financed == MathMax(Zero, RSub(form.sale_price, form.down_payment))
            monthly  == calculateMonthlyPayment(financed, form.interest_rate,
                                                form.term_months)
        IN  /\ result.finance_amount = Round2(financed)
            /\ result.total_payment =
                   Round2(RAdd(RMul(monthly, <<form.term_months, 1>>), form.down_payment))
            /\ (form.sale_price = Cents(1000000) /\ form.down_payment = Cents(200000))
                   => result.finance_amount = Cents(800000)

\* The details of the sale of 10000.00 with 2000.00 down.
C14_Witness ==
    /\ pc = "done"
    /\ call.fn = "calculateSaleDetails"
    /\ call.formData.sale_price = Cents(1000000)
    /\ call.formData.down_payment = Cents(200000)
    /\ result.finance_amount = Cents(800000)
    /\ result.total_payment = Cents(1000000)

\* The cent nearest to x, a half cent going away from zero.
HalfAwayFromZero(x) ==
    LET n == Abs(x[1]) * 100
        q == (2 * n + x[2]) \div (2 * x[2])
    IN  Rat(IF x[1] < 0 THEN 0 - q ELSE q, 100)

\* C15: the cent rounding of every amount, negative ones included, is the
\* nearest cent with a half cent going away from zero.
C15_HalfAwayFromZero ==
    (pc = "done" /\ call.fn = "round2") => result = HalfAwayFromZero(call.x)

\* C18: calculateMonthlyPayment returns 0 when principal <= 0 or months <= 0,
\* at every rate; at a zero rate with both positive it returns principal / months.
C18_MonthlyPaymentGuards ==
    (pc = "done" /\ call.fn = "calculateMonthlyPayment") =>
        /\ (RLe(call.principal, Zero) \/ call.months <= 0) => result = Zero
        /\ (call.annualRate = Zero /\ RLt(Zero, call.principal) /\ call.months > 0)
               => RMul(result, <<call.months, 1>>) = call.principal

\* A negative principal at interest over a positive term: the payment is 0.
C18_Witness ==
    /\ pc = "done"
    /\ call.fn = "calculateMonthlyPayment"
    /\ RLt(call.principal, Zero)
    /\ call.annualRate # Zero
    /\ call.months > 0
    /\ result = Zero

\* C19: calculateFinanceAmount is the sale price less the down payment, or 0
\* when the down payment is the larger; it is never negative.
C19_FinanceAmount ==
    (pc = "done" /\ call.fn = "calculateFinanceAmount") =>
        /\ RLe(call.downPayment, call.salePrice)
               => result = RSub(call.salePrice, call.downPayment)
        /\ RLt(call.salePrice, call.downPayment) => result = Zero
        /\ RLe(Zero, result)

\* A down payment larger than the price finances nothing.
C19_Witness ==
    /\ pc = "done"
    /\ call.fn = "calculateFinanceAmount"
    /\ RLt(call.salePrice, call.downPayment)
    /\ RLt(Zero, call.salePrice)
    /\ result = Zero

StoredNumbers(sale_id) ==
    LET rows == PaymentsOf(payments, sale_id)
    IN  [i \in 1..Len(rows) |-> rows[i].payment_number]

\* The payment numbers of the schedule generated for a sale.
ScheduledNumbers(sale) ==
    LET entries == generateAmortizationSchedule(sale.finance_amount, sale.interest_rate,
                       sale.term_months, sale.sale_date)
    IN  [i \in 1..Len(entries) |-> entries[i].payment_number]

\* C7: a sale is stored together with all of its payment records, each once.
\* Read at its weakest, while no handleSubmit is in flight: every stored sale
\* has exactly the payments of its schedule.
C7_AtomicSaleCreation ==
    submit.pc = "idle" =>
        \A id \in 1..Len(sales) : StoredNumbers(id) = ScheduledNumbers(sales[id])

\* A step of a stripe-webhook request: only these change the handlers' state.
WebhookStep == webhook' # webhook

\* Nothing but the two tables is written by a webhook step, and no row is created.
WebhookKeepsRest ==
    /\ Len(payments') = Len(payments)
    /\ Len(sales') = Len(sales)
    /\ UNCHANGED <<formData, submit, view, markPaidOff, today, sessions>>

C10_SnapshotFinancials ==
    [][\A k \in 1..Len(sales) :
        /\ Len(sales') >= k
        /\ sales'[k].finance_amount = sales[k].finance_amount
        /\ sales'[k].monthly_payment = sales[k].monthly_payment
        /\ sales'[k].total_payment = sales[k].total_payment]_vars

\* A sale at interest, marked paid off by the administrator after a payment by
\* card and the late promotion, still with the financials of its creation.
C10_Witness ==
    /\ Len(sales) >= 1
    /\ sales[1].status = "paid_off"
    /\ sales[1].interest_rate # Zero
    /\ sales[1].monthly_payment = Cents(58)
    /\ sales[1].total_payment = Cents(115)
    /\ view.loaded
    /\ \E i \in 1..Len(payments) : payments[i].stripe_checkout_session_id # 0
    /\ \E i \in 1..Len(payments) :
        payments[i].status = "paid" /\ payments[i].stripe_checkout_session_id = 0

\* The form fields as stored with a sale.
StoredForm(sale) ==
    [sale_date |-> sale.sale_date, sale_price |-> sale.sale_price,
     down_payment |-> sale.down_payment, interest_rate |-> sale.interest_rate,
     term_months |-> sale.term_months]

\* C11: the finance_amount, monthly_payment and total_payment stored with a
\* sale are calculateSaleDetails of the sale_price, down_payment, interest_rate
\* and term_months stored with it.
C11_SubmittedFinancials ==
    \A k \in 1..Len(sales) :
        LET details == calculateSaleDetails(StoredForm(sales[k]))
        IN  /\ sales[k].finance_amount = details.finance_amount
            /\ sales[k].monthly_payment = details.monthly_payment
            /\ sales[k].total_payment = details.total_payment

\* A sale submitted from a form edited to carry a down payment: the amount
\* financed is not the price.
C11_Witness ==
    \E k \in 1..Len(sales) :
        /\ sales[k].down_payment # Zero
        /\ sales[k].finance_amount # sales[k].sale_price
        /\ sales[k].total_payment = sales[k].down_payment

C16_PaidFields ==
    \A i \in 1..Len(payments) :
        IF payments[i].status = "paid"
        THEN payments[i].paid_amount # NULL /\ payments[i].paid_date # NULL
        ELSE payments[i].paid_amount = NULL /\ payments[i].paid_date = NULL

\* One payment paid by card, one marked paid by the administrator.
C16_Witness ==
    /\ Len(payments) = 2
    /\ payments[1].status = "paid"
    /\ payments[1].stripe_checkout_session_id # 0
    /\ payments[1].paid_date = Today
    /\ payments[2].status = "paid"
    /\ payments[2].stripe_checkout_session_id = 0
    /\ payments[2].paid_amount = payments[2].amount_due

\* C17: update_payment_statuses changes only payments that are 'pending' and
\* due strictly before the current date, and of those only the status, to
\* 'late'; it changes nothing else.
C17_LatePromotionFrame ==
    [][UpdatePaymentStatuses =>
        /\ Len(payments') = Len(payments)
        /\ \A i \in 1..Len(payments) :
            \/ payments'[i] = payments[i]
            \/ /\ payments[i].status = "pending"
               /\ \/ payments[i].due_date[1] < today[1]
                  \/ /\ payments[i].due_date[1] = today[1]
                     /\ payments[i].due_date[2] < today[2]
                  \/ /\ payments[i].due_date[1] = today[1]
                     /\ payments[i].due_date[2] = today[2]
                     /\ payments[i].due_date[3] < today[3]
               /\ payments'[i] = [payments[i] EXCEPT !.status = "late"]
        /\ UNCHANGED <<sales, formData, submit, view, markPaidOff, today, sessions,
                       webhook>>]_vars

\* After a promotion: the payment past due is late, the one not yet due is
\* still pending.
C17_Witness ==
    /\ Len(payments) = 2
    /\ payments[1].status = "late"
    /\ DateLt(payments[1].due_date, today)
    /\ payments[1].paid_amount = NULL
    /\ payments[2].status = "pending"
    /\ DateLt(today, payments[2].due_date)

\* C21: a webhook handler goes on to mark the sale paid off only when, as it
\* checks, every payment of that sale is 'paid'.
C21_PaidOffOnlyWhenAllPaid ==
    [][\A h \in DOMAIN webhook :
        (webhook[h].pc = "queryUnpaid" /\ webhook'[h].pc = "updateSale") =>
            \A i \in 1..Len(payments) :
                payments[i].sale_id = webhook[h].sale_id => payments[i].status = "paid"]_vars

\* C22: a sale with status 'paid_off' has no payment with a status other than 'paid'.
C22_PaidOffMeansAllPaid ==
    \A k \in 1..Len(sales) :
        sales[k].status = "paid_off" =>
            \A i \in 1..Len(payments) :
                payments[i].sale_id = k => payments[i].status = "paid"

C25_PaidIsAbsorbing ==
    [][\A i \in 1..Len(payments) :
        payments[i].status = "paid" =>
            (Len(payments') >= i /\ payments'[i].status = "paid")]_vars

\* A payment past due that is paid, with a card session recorded on it and
\* shown as paid on the page, while the other payment of its sale is pending.
C25_Witness ==
    /\ Len(payments) = 2
    /\ payments[1].status = "paid"
    /\ DateLt(payments[1].due_date, today)
    /\ payments[1].stripe_checkout_session_id # 0
    /\ view.loaded
    /\ Len(view.payments) = 2
    /\ view.payments[1].status = "paid"
    /\ view.payments[1].paid_amount # NULL
    /\ payments[2].status = "pending"
    /\ sales[1].status = "active"

\* C26: a request without a signature, or with one that fails verification, is
\* answered 400, and the step that answers it changes no payment and no sale.
C26_UnsignedRejected ==
    [][\A h \in DOMAIN webhook :
        \A signature \in {"none", "invalid"}, type \in EventTypes, s \in 0..Len(sessions) :
            (webhook[h].pc = "idle" /\ webhook'[h] = Received(signature, type, s)) =>
                /\ webhook'[h] = Responded(400)
                /\ payments' = payments
                /\ sales' = sales]_vars

\* A request answered 400 while a payment is pending and no session exists: it
\* was refused for its signature.
C26_Witness ==
    /\ sessions = <<>>
    /\ \E h \in DOMAIN webhook : webhook[h] = Responded(400)
    /\ Len(payments) = 2
    /\ payments[1].status = "pending"
    /\ sales[1].status = "active"

\* C27: when the page shows every payment of a sale as paid, each with
\* paid_amount = amount_due, the Total Paid it displays is the sale's
\* total_payment.
C27_TotalPaidReconciles ==
    (/\ view.loaded
     /\ Len(view.payments) = view.sale.term_months
     /\ \A i \in 1..Len(view.payments) :
            /\ view.payments[i].status = "paid"
            /\ view.payments[i].paid_amount = view.payments[i].amount_due)
        => DisplayedTotalPaid(view) = view.sale.total_payment

\* C24: once the handlers of the events of all payments of a sale have all been
\* through, none of their calls failing, the sale is 'paid_off'.
C24_AllPaidByCard ==
    (\A h \in DOMAIN webhook : webhook[h].pc = "done") => sales[1].status = "paid_off"

\* All handlers are through, every payment carries its own session, and the
\* sale is paid off.
C24_Witness ==
    /\ Len(webhook) = Len(payments)
    /\ Len(payments) >= 2
    /\ \A h \in DOMAIN webhook : webhook[h] = Responded(200)
    /\ \A i \in 1..Len(payments) :
        payments[i].status = "paid" /\ payments[i].stripe_checkout_session_id = i
    /\ sales[1].status = "paid_off"

\* The payments of the sale as stored once the event of session 1 has been
\* handled: the first paid today for its amount due, with the session's ids; the
\* others as inserted.
PaidOnce ==
    LET rows == SubmitPayments(1, 1, StoredForm(sales[1]),
                    [finance_amount |-> sales[1].finance_amount])
    IN  [rows EXCEPT ![1] = [rows[1] EXCEPT !.status = "paid",
                                            !.paid_amount = rows[1].amount_due,
                                            !.paid_date = Today,
                                            !.stripe_payment_id = 1,
                                            !.stripe_checkout_session_id = 1]]

C29_LoadingEnds ==
    <>(/\ dashboard.mounted
       /\ ~dashboard.loading
       /\ (~dashboard.profile => DashboardView = "No buyer profile found"))

====
